---- MODULE Spec2Model ----
(***************************************************************************)
(* Model of backend/main.py: the download job table (tasks), the           *)
(* concurrency gate (download_semaphore), the download worker coroutine    *)
(* with its progress hook, the Reaper (auto_cleanup), the retrieval        *)
(* handler (download_file) with its delayed release, and the storage area  *)
(* TEMP_DIR.                                                               *)
(*                                                                         *)
(* Execution model.  Coroutines (start_download, download_worker,          *)
(* auto_cleanup) run on one asyncio event loop: between two awaits a       *)
(* coroutine is not interleaved with another coroutine (variable `loop`    *)
(* names the coroutine that holds the loop).  Plain `def` handlers         *)
(* (get_status, download_file), the release closure and the Extractor      *)
(* (run_ytdl with progress_hook) run in threads and interleave with        *)
(* everything at the granularity of one shared read or write.              *)
(*                                                                         *)
(* Time.  `now` is the wall clock in seconds since process start.  It      *)
(* advances to the next expiry of a pending sleep (the Reaper's, a         *)
(* release's) and only while no straight-line code is in progress:         *)
(* straight-line code takes no measurable time, and a sleep that expired   *)
(* ends before the clock moves again.  Threads and coroutines interleave   *)
(* freely at one clock value.                                              *)
(***************************************************************************)
EXTENDS Integers, Sequences, FiniteSets, TLC

\* ----------------------------------------------------------------- bounds
MaxJobs     == 2      \* jobs admitted, except in the gate specification
GateJobs    == 5      \* jobs admitted in the gate specification
LiveJobs    == 4      \* jobs admitted in the gate specification with fairness
MaxReleases == 2      \* release closures alive at the same time
MaxTime     == 5400   \* the clock stops advancing here
MaxCalls    == 2      \* cleanup_task_files calls of the cleanup specification
ReaperJobs  == 1      \* jobs admitted in the Reaper specification
RequestGap  == 5      \* seconds between two requests inside a release delay
MaxStrLen   == 4      \* characters of an arbitrary time string
MaxParts    == 4      \* numbers written into a time string

\* ------------------------------------------------------ program constants
GateSize       == 3      \* asyncio.Semaphore(3)
Retention      == 3600   \* now - 3600
ReaperInterval == 1800   \* asyncio.sleep(1800)
ReleaseDelay   == 15     \* time.sleep(15)

None == "None"

TaskIds == 1..GateJobs

\* Extensions the Extractor writes in this model; Blacklist is the tuple of
\* line 199.
Exts      == {"mp4", "part"}
Blacklist == {"part", "ytdl", "webp", "vtt"}

\* request.title
Titles == {None, "T"}

\* info.get('upload_date'): absent, or a YYYYMMDD date.
UploadDates == {"20200101"}

\* _percent_str values delivered to progress_hook, as the number they
\* spell, or a text float() rejects.
PercentStrs == {"0.0%", "50.0%", "N/A"}

\* ---------------------------------------------------------------- helpers
Name(i, e) == [id |-> i, ext |-> e]

\* d[k] = v on a dict
Put(r, k, v) == [x \in (DOMAIN r) \cup {k} |-> IF x = k THEN v ELSE r[x]]

\* del d[k]
Del(f, k) == [x \in (DOMAIN f) \ {k} |-> f[x]]

DelAll(f, S) == [x \in (DOMAIN f) \ S |-> f[x]]

\* float(p_str) after strip() and replace('%', ''): <<the number>>, or <<>>
\* when float() raises ValueError.
ParsePercent(s) ==
    CASE s = "0.0%"  -> <<0>>
      [] s = "50.0%" -> <<50>>
      [] OTHER       -> <<>>

\* time.mktime of the upload date: every upload date of the model lies a
\* day before process start.
MkTime(d) == 0 - 86400

\* f.startswith(task_id): ids are uuid4 strings of one length, so a name
\* starts with an id exactly when it was built from that id.
StartsWith(n, i) == n.id = i

\* A glob without the job id in its pattern.
GlobAll(fs, i) == DOMAIN fs

\* glob.glob(os.path.join(TEMP_DIR, f"{task_id}*"))
Glob(fs, i) == {n \in DOMAIN fs : StartsWith(n, i)}

\* The list comprehension of line 199.
Qualifying(fs, i) == {n \in DOMAIN fs : StartsWith(n, i) /\ n.ext \notin Blacklist}

\* One turn of the loop of lines 47-52: os.path.exists(f), os.remove(f).
\* With ok = FALSE os.remove raised; the exception is printed and the file
\* stays.  A file that vanished after the listing is skipped, or its
\* os.remove raises and is printed: the directory is the same either way.
RemoveOne(fs, n, ok) == IF n \in DOMAIN fs /\ ok THEN Del(fs, n) ELSE fs

\* cleanup_task_files run without interruption: every listed file is
\* removed, except those in `failed`, whose os.remove raised.
cleanup_task_files(fs, i, failed) == DelAll(fs, Glob(fs, i) \ failed)

\* The worker's local `files` (line 199) before the listing, and when the
\* listing is empty.
Unset  == [id |-> 0, ext |-> "unset"]
NoFile == [id |-> 0, ext |-> "none"]

\* ------------------------------------------------------------ parse_time
\* A time string is the sequence of its characters.
Digits == <<"0", "1", "2", "3", "4", "5", "6", "7", "8", "9">>

IsDigit(c) == \E d \in 1..10 : Digits[d] = c

DigitVal(c) == (CHOOSE d \in 1..10 : Digits[d] = c) - 1

\* timestr.split(':'): the text before the first colon, then the split of
\* the rest; a string without a colon is its only part.
RECURSIVE Split(_)
Split(s) ==
    IF \A k \in 1..Len(s) : s[k] # ":"
    THEN <<s>>
    ELSE LET c == CHOOSE k \in 1..Len(s) : s[k] = ":" /\ \A j \in 1..(k - 1) : s[j] # ":"
         IN  <<SubSeq(s, 1, c - 1)>> \o Split(SubSeq(s, c + 1, Len(s)))

\* int(part) succeeds: on the characters of the model, a non-empty run of
\* digits.
IsInt(p) == p # <<>> /\ \A k \in 1..Len(p) : IsDigit(p[k])

\* int(part), base 10.
RECURSIVE IntOf(_)
IntOf(p) ==
    IF p = <<>> THEN 0
    ELSE 10 * IntOf(SubSeq(p, 1, Len(p) - 1)) + DigitVal(p[Len(p)])

\* The minutes counted as hours in the two-part form.
parse_time_MinutesAsHours(timestr) ==
    IF timestr = <<>> THEN 0
    ELSE LET texts == Split(timestr)
             parts == [k \in 1..Len(texts) |-> IntOf(texts[k])]
         IN  IF \E k \in 1..Len(texts) : ~IsInt(texts[k]) THEN 0
             ELSE CASE Len(parts) = 1 -> parts[1]
                    [] Len(parts) = 2 -> parts[1] * 3600 + parts[2]
                    [] Len(parts) = 3 -> parts[1] * 3600 + parts[2] * 60 + parts[3]
                    [] OTHER -> 0

\* parse_time (lines 116-125).  `not timestr` holds for None and for the
\* empty string (the empty sequence here); a ValueError of int() is caught
\* by the bare except of line 124.
parse_time(timestr) ==
    IF timestr = <<>> THEN 0
    ELSE LET texts == Split(timestr)
             parts == [k \in 1..Len(texts) |-> IntOf(texts[k])]
         IN  IF \E k \in 1..Len(texts) : ~IsInt(texts[k]) THEN 0
             ELSE CASE Len(parts) = 1 -> parts[1]
                    [] Len(parts) = 2 -> parts[1] * 60 + parts[2]
                    [] Len(parts) = 3 -> parts[1] * 3600 + parts[2] * 60 + parts[3]
                    [] OTHER -> 0

\* No clip asked for, or not parsed yet.
NoClip == [timestr |-> <<>>, parts |-> <<>>, seconds |-> <<>>]

VARIABLES
    tasks,              \* the job table: id -> dict
    download_semaphore, \* free slots of the gate
    pc,                 \* id -> position of its download_worker
    request,            \* id -> request.title
    upload_date,        \* id -> the worker's local upload_date
    out,                \* id -> the worker's local files[0]
    files,              \* TEMP_DIR: name -> st_mtime
    now,                \* time.time()
    loop,               \* the coroutine running on the event loop
    reaper,             \* auto_cleanup: position and locals of the sweep
    rel,                \* slot -> release closure (download_file.cleanup)
    resp,               \* the last HTTP response
    nextId,             \* ids minted so far + 1
    escaped,            \* exceptions that left a worker or a release
    calls,              \* cleanup_task_files calls of the cleanup specification
    clip                \* request.clip.start and what parse_time made of it

vars == <<tasks, download_semaphore, pc, request, upload_date, out, files, now,
          loop, reaper, rel, resp, nextId, escaped, calls, clip>>

Slots == 1..MaxReleases

\* Who runs on the event loop.
LoopIdle      == [kind |-> "idle", id |-> 0]
LoopWorker(i) == [kind |-> "worker", id |-> i]
LoopReaper    == [kind |-> "reaper", id |-> 0]

EmptyFn == [x \in {} |-> None]

IdleRelease == [pc |-> "idle", id |-> 0, deadline |-> 0, todo |-> {}, failed |-> {}]

\* An HTTP response: the handler, the id asked for, the status code and the
\* JSON body (Detail(m) is the body of an HTTPException or of a failure).
Response(op, i, code, body) == [op |-> op, id |-> i, code |-> code, body |-> body]

Detail(m) == [detail |-> m]

\* State after import and startup: TEMP_DIR cleared (lines 82-96), the job
\* table empty (line 98), the gate full (line 42), and the Reaper asleep
\* after its first sweep of the empty directory (lines 31-35).
Init ==
    /\ tasks = EmptyFn
    /\ download_semaphore = GateSize
    /\ pc = [i \in TaskIds |-> "none"]
    /\ request = [i \in TaskIds |-> None]
    /\ upload_date = [i \in TaskIds |-> None]
    /\ out = [i \in TaskIds |-> Unset]
    /\ files = EmptyFn
    /\ now = 0
    /\ loop = LoopIdle
    /\ reaper = [pc |-> "sleep", wake |-> ReaperInterval, now |-> 0, todo |-> {},
                 cur |-> Unset, listed |-> EmptyFn, removed |-> {}]
    /\ rel = [s \in Slots |-> IdleRelease]
    /\ resp = Response("none", 0, 0, Detail("none"))
    /\ nextId = 1
    /\ escaped = {}
    /\ calls = <<>>
    /\ clip = NoClip

\* ------------------------------------------------------------ admission
\* POST /download (lines 376-381).  uuid4 mints an id never used before.
start_download(t) ==
    /\ loop = LoopIdle
    /\ nextId <= GateJobs
    /\ tasks' = tasks @@ (nextId :> [status |-> "queued", progress |-> 0])
    /\ pc' = [pc EXCEPT ![nextId] = "acquire"]
    /\ request' = [request EXCEPT ![nextId] = t]
    /\ resp' = Response("start", nextId, 200, [task_id |-> nextId])
    /\ nextId' = nextId + 1
    /\ UNCHANGED <<download_semaphore, upload_date, out, files, now, loop, reaper,
                   rel, escaped, calls, clip>>

\* --------------------------------------------------------------- worker
\* tasks[task_id][k] = v inside the try block: a KeyError is caught by
\* `except Exception` (line 228).
WorkerWrite(i, k, v, next) ==
    IF i \in DOMAIN tasks
    THEN /\ tasks' = [tasks EXCEPT ![i] = Put(@, k, v)]
         /\ pc' = [pc EXCEPT ![i] = next]
    ELSE /\ pc' = [pc EXCEPT ![i] = "exc_status"]
         /\ UNCHANGED tasks

\* async with download_semaphore (line 128): the coroutine takes the loop
\* and a slot; with no slot free it stays suspended.
Acquire(i) ==
    /\ pc[i] = "acquire"
    /\ loop = LoopIdle
    /\ download_semaphore > 0
    /\ download_semaphore' = download_semaphore - 1
    /\ loop' = LoopWorker(i)
    /\ pc' = [pc EXCEPT ![i] = "preclean"]
    /\ UNCHANGED <<tasks, request, upload_date, out, files, now, reaper, rel, resp,
                   nextId, escaped, calls, clip>>

\* cleanup_task_files(task_id) (line 130).
PreClean(i) ==
    /\ pc[i] = "preclean"
    /\ \E failed \in SUBSET Glob(files, i) :
          files' = cleanup_task_files(files, i, failed)
    /\ pc' = [pc EXCEPT ![i] = "set_processing"]
    /\ UNCHANGED <<tasks, download_semaphore, request, upload_date, out, now, loop,
                   reaper, rel, resp, nextId, escaped, calls, clip>>

\* tasks[task_id]['status'] = 'processing' (line 132), then the await of
\* line 188 hands the loop back.  The write is outside the try block: a
\* KeyError leaves the worker through the `async with`, which frees the slot.
SetProcessing(i) ==
    /\ pc[i] = "set_processing"
    /\ IF i \in DOMAIN tasks
       THEN /\ tasks' = [tasks EXCEPT ![i] = Put(@, "status", "processing")]
            /\ pc' = [pc EXCEPT ![i] = "extract"]
            /\ UNCHANGED <<download_semaphore, escaped>>
       ELSE /\ pc' = [pc EXCEPT ![i] = "done"]
            /\ download_semaphore' = download_semaphore + 1
            /\ escaped' = escaped \cup {[who |-> "worker", id |-> i]}
            /\ UNCHANGED tasks
    /\ loop' = LoopIdle
    /\ UNCHANGED <<request, upload_date, out, files, now, reaper, rel, resp, nextId,
                   calls, clip>>

\* The callbacks the Extractor delivers to progress_hook.
HookEvents ==
    {[status |-> "downloading", percent_str |-> s] : s \in PercentStrs}
        \cup {[status |-> "finished", percent_str |-> None]}

\* A hook that writes the progress of every job instead of its own.
progress_hook_EveryJob(i, d) ==
    /\ pc[i] = "extract"
    /\ tasks' = [j \in DOMAIN tasks |->
                    Put(tasks[j], "progress",
                        IF d.status = "finished" THEN 100
                        ELSE IF ParsePercent(d.percent_str) # <<>>
                             THEN ParsePercent(d.percent_str)[1]
                             ELSE tasks[j]["progress"])]
    /\ UNCHANGED <<download_semaphore, pc, request, upload_date, out, files, now, loop,
                   reaper, rel, resp, nextId, escaped, calls, clip>>

\* progress_hook (lines 135-143), called by the Extractor thread.  In the
\* `downloading` branch every exception is swallowed; in the `finished`
\* branch a KeyError goes back into the Extractor, whose download fails.
progress_hook(i, d) ==
    /\ pc[i] = "extract"
    /\ IF d.status = "downloading"
       THEN /\ tasks' = IF ParsePercent(d.percent_str) # <<>> /\ i \in DOMAIN tasks
                        THEN [tasks EXCEPT ![i] =
                                 Put(@, "progress", ParsePercent(d.percent_str)[1])]
                        ELSE tasks
            /\ UNCHANGED pc
       ELSE IF i \in DOMAIN tasks
            THEN /\ tasks' = [tasks EXCEPT ![i] = Put(@, "progress", 100)]
                 /\ UNCHANGED pc
            ELSE /\ pc' = [pc EXCEPT ![i] = "exc_status"]
                 /\ UNCHANGED tasks
    /\ UNCHANGED <<download_semaphore, request, upload_date, out, files, now, loop,
                   reaper, rel, resp, nextId, escaped, calls, clip>>

\* The Extractor writes a file named by the output template (line 133).
ExtractorWrite(i, e) ==
    /\ pc[i] = "extract"
    /\ Name(i, e) \notin DOMAIN files
    /\ files' = files @@ (Name(i, e) :> now)
    /\ UNCHANGED <<tasks, download_semaphore, pc, request, upload_date, out, now, loop,
                   reaper, rel, resp, nextId, escaped, calls, clip>>

\* ydl.download returns (line 185): asyncio.to_thread completes.
ExtractorReturn(i) ==
    /\ pc[i] = "extract"
    /\ pc' = [pc EXCEPT ![i] = "lookup"]
    /\ UNCHANGED <<tasks, download_semaphore, request, upload_date, out, files, now,
                   loop, reaper, rel, resp, nextId, escaped, calls, clip>>

\* ydl.download raises: the await of line 188 raises into the try block.
ExtractorRaise(i) ==
    /\ pc[i] = "extract"
    /\ pc' = [pc EXCEPT ![i] = "exc_status"]
    /\ UNCHANGED <<tasks, download_semaphore, request, upload_date, out, files, now,
                   loop, reaper, rel, resp, nextId, escaped, calls, clip>>

\* Lines 190-195: the second extract_info; r is "raise", None (no
\* upload_date in the info) or a date.  The coroutine resumes on the loop.
\* When the call raises, upload_date keeps the None of line 191 and the
\* bare except of line 196 is entered.
SecondaryLookup(i, r) ==
    /\ pc[i] = "lookup"
    /\ loop = LoopIdle
    /\ loop' = LoopWorker(i)
    /\ upload_date' = [upload_date EXCEPT ![i] = IF r = "raise" THEN None ELSE r]
    /\ pc' = [pc EXCEPT ![i] = IF r = "raise" THEN "lookup_except" ELSE "resolve"]
    /\ UNCHANGED <<tasks, download_semaphore, request, out, files, now, reaper, rel,
                   resp, nextId, escaped, calls, clip>>

\* Lines 196-197: `except: pass`.
LookupExcept(i) ==
    /\ pc[i] = "lookup_except"
    /\ pc' = [pc EXCEPT ![i] = "resolve"]
    /\ UNCHANGED <<tasks, download_semaphore, request, upload_date, out, files, now, loop,
                   reaper, rel, resp, nextId, escaped, calls, clip>>

\* os.listdir(TEMP_DIR) of line 199 raises (the directory is gone or
\* unreadable): the except block of line 228 takes over.
ResolveRaise(i) ==
    /\ pc[i] = "resolve"
    /\ pc' = [pc EXCEPT ![i] = "exc_status"]
    /\ UNCHANGED <<tasks, download_semaphore, request, upload_date, out, files, now, loop,
                   reaper, rel, resp, nextId, escaped, calls, clip>>

\* Lines 199-201: files[0] of the filtered listing; os.listdir gives the
\* names in arbitrary order.  With no qualifying file the body of
\* `if files:` is skipped and the worker leaves the gated section.
ResolveOutput(i) ==
    /\ pc[i] = "resolve"
    /\ IF Qualifying(files, i) = {}
       THEN /\ pc' = [pc EXCEPT ![i] = "exit"]
            /\ out' = [out EXCEPT ![i] = NoFile]
       ELSE \E n \in Qualifying(files, i) :
               /\ out' = [out EXCEPT ![i] = n]
               /\ pc' = [pc EXCEPT ![i] = IF upload_date[i] # None THEN "utime"
                                           ELSE "w_status"]
    /\ UNCHANGED <<tasks, download_semaphore, request, upload_date, files, now, loop,
                   reaper, rel, resp, nextId, escaped, calls, clip>>

\* A failing os.utime that is not swallowed.
SetMtimeRaises(i) ==
    /\ pc[i] = "utime"
    /\ \E ok \in BOOLEAN :
          /\ files' = IF ok /\ out[i] \in DOMAIN files
                      THEN [files EXCEPT ![out[i]] = MkTime(upload_date[i])]
                      ELSE files
          /\ pc' = [pc EXCEPT ![i] = IF ok THEN "w_status" ELSE "exc_status"]
    /\ UNCHANGED <<tasks, download_semaphore, request, upload_date, out, now, loop,
                   reaper, rel, resp, nextId, escaped, calls, clip>>

\* Lines 204-213: os.utime(file_path, (dt, dt)); any failure is swallowed.
SetMtime(i) ==
    /\ pc[i] = "utime"
    /\ \E ok \in BOOLEAN :
          files' = IF ok /\ out[i] \in DOMAIN files
                   THEN [files EXCEPT ![out[i]] = MkTime(upload_date[i])]
                   ELSE files
    /\ pc' = [pc EXCEPT ![i] = "w_status"]
    /\ UNCHANGED <<tasks, download_semaphore, request, upload_date, out, now, loop,
                   reaper, rel, resp, nextId, escaped, calls, clip>>

\* Line 215.
WriteCompleted(i) ==
    /\ pc[i] = "w_status"
    /\ WorkerWrite(i, "status", "completed", "w_file_path")
    /\ UNCHANGED <<download_semaphore, request, upload_date, out, files, now, loop,
                   reaper, rel, resp, nextId, escaped, calls, clip>>

\* Line 216.
WriteFilePath(i) ==
    /\ pc[i] = "w_file_path"
    /\ WorkerWrite(i, "file_path", out[i], "w_filename")
    /\ UNCHANGED <<download_semaphore, request, upload_date, out, files, now, loop,
                   reaper, rel, resp, nextId, escaped, calls, clip>>

\* Lines 218-219: f"{task_id}.{ext}".
WriteFilename(i) ==
    /\ pc[i] = "w_filename"
    /\ WorkerWrite(i, "filename", Name(i, out[i].ext), "w_download_name")
    /\ UNCHANGED <<download_semaphore, request, upload_date, out, files, now, loop,
                   reaper, rel, resp, nextId, escaped, calls, clip>>

\* Lines 222-226: "Title (YYYY-MM-DD).ext", or "Title.ext" without a date.
DisplayName(title, date, ext) ==
    [title |-> IF title # None THEN title ELSE "video", date |-> date, ext |-> ext]

\* The formatting of the display name raises: the status was already
\* written by line 215 and the except block of line 228 takes over.
WriteDownloadNameRaises(i) ==
    /\ pc[i] = "w_download_name"
    /\ pc' = [pc EXCEPT ![i] = "exc_status"]
    /\ UNCHANGED <<tasks, download_semaphore, request, upload_date, out, files, now, loop,
                   reaper, rel, resp, nextId, escaped, calls, clip>>

WriteDownloadName(i) ==
    /\ pc[i] = "w_download_name"
    /\ WorkerWrite(i, "download_name",
                   DisplayName(request[i], upload_date[i], out[i].ext), "exit")
    /\ UNCHANGED <<download_semaphore, request, upload_date, out, files, now, loop,
                   reaper, rel, resp, nextId, escaped, calls, clip>>

\* Line 229, in the except block: a KeyError here leaves the worker.
ExcStatus(i) ==
    /\ pc[i] = "exc_status"
    /\ loop \in {LoopIdle, LoopWorker(i)}
    /\ loop' = LoopWorker(i)
    /\ IF i \in DOMAIN tasks
       THEN /\ tasks' = [tasks EXCEPT ![i] = Put(@, "status", "error")]
            /\ pc' = [pc EXCEPT ![i] = "exc_error"]
            /\ UNCHANGED escaped
       ELSE /\ pc' = [pc EXCEPT ![i] = "exit"]
            /\ escaped' = escaped \cup {[who |-> "worker", id |-> i]}
            /\ UNCHANGED tasks
    /\ UNCHANGED <<download_semaphore, request, upload_date, out, files, now, reaper,
                   rel, resp, nextId, calls, clip>>

\* The except block without line 230.
ExcErrorNoMessage(i) ==
    /\ pc[i] = "exc_error"
    /\ pc' = [pc EXCEPT ![i] = "exit"]
    /\ UNCHANGED <<tasks, download_semaphore, request, upload_date, out, files, now, loop,
                   reaper, rel, resp, nextId, escaped, calls, clip>>

\* Line 230: str(e).
ExcError(i) ==
    /\ pc[i] = "exc_error"
    /\ IF i \in DOMAIN tasks
       THEN /\ tasks' = [tasks EXCEPT ![i] = Put(@, "error", "E")]
            /\ UNCHANGED escaped
       ELSE /\ escaped' = escaped \cup {[who |-> "worker", id |-> i]}
            /\ UNCHANGED tasks
    /\ pc' = [pc EXCEPT ![i] = "exit"]
    /\ UNCHANGED <<download_semaphore, request, upload_date, out, files, now, loop,
                   reaper, rel, resp, nextId, calls, clip>>

\* The worker ends without freeing its slot.
ExitKeepsSlot(i) ==
    /\ pc[i] = "exit"
    /\ loop' = LoopIdle
    /\ pc' = [pc EXCEPT ![i] = "done"]
    /\ UNCHANGED <<tasks, download_semaphore, request, upload_date, out, files, now,
                   reaper, rel, resp, nextId, escaped, calls, clip>>

\* The end of `async with` (line 128): the slot is freed and the coroutine
\* ends.
Exit(i) ==
    /\ pc[i] = "exit"
    /\ download_semaphore' = download_semaphore + 1
    /\ loop' = LoopIdle
    /\ pc' = [pc EXCEPT ![i] = "done"]
    /\ UNCHANGED <<tasks, request, upload_date, out, files, now, reaper, rel, resp,
                   nextId, escaped, calls, clip>>
\* ---------------------------------------------------------- HTTP handlers
\* GET /status/{task_id} (lines 383-387).
StatusOf(i) ==
    IF i \notin DOMAIN tasks
    THEN Response("status", i, 404, Detail("Task not found"))
    ELSE Response("status", i, 200, tasks[i])

get_status(i) ==
    /\ resp' = StatusOf(i)
    /\ UNCHANGED <<tasks, download_semaphore, pc, request, upload_date, out, files, now,
                   loop, reaper, rel, nextId, escaped, calls, clip>>

\* The guard without its test of the status.
NotReadyUnknownOnly(i) == i \notin DOMAIN tasks

\* The guard of line 391.
NotReady(i) == IF i \notin DOMAIN tasks THEN TRUE ELSE tasks[i]["status"] # "completed"

\* tasks[task_id].get('download_name', tasks[task_id].get('filename', 'video.mp4'))
ServedName(r) ==
    IF "download_name" \in DOMAIN r THEN r["download_name"]
    ELSE IF "filename" \in DOMAIN r THEN r["filename"]
    ELSE DisplayName("video", None, "mp4")

FreeSlots == {s \in Slots : rel[s].pc = "idle"}

\* GET /download/{task_id} (lines 389-406).  The framework sends the
\* FileResponse and then runs the background task in a thread; a
\* FileResponse for a missing file raises before anything is sent and the
\* background task never runs.
download_file(i) ==
    \/ /\ NotReady(i)
       /\ resp' = Response("download", i, 400, Detail("File not ready"))
       /\ UNCHANGED rel
    \/ /\ ~NotReady(i)
       /\ "file_path" \notin DOMAIN tasks[i]
       /\ resp' = Response("download", i, 500, Detail("KeyError"))
       /\ UNCHANGED rel
    \/ /\ ~NotReady(i)
       /\ "file_path" \in DOMAIN tasks[i]
       /\ tasks[i]["file_path"] \notin DOMAIN files
       /\ resp' = Response("download", i, 500, Detail("RuntimeError"))
       /\ UNCHANGED rel
    \/ /\ ~NotReady(i)
       /\ "file_path" \in DOMAIN tasks[i]
       /\ tasks[i]["file_path"] \in DOMAIN files
       /\ FreeSlots # {}
       /\ now + ReleaseDelay <= MaxTime
       /\ resp' = Response("download", i, 200,
                           [path |-> tasks[i]["file_path"], filename |-> ServedName(tasks[i])])
       /\ LET s == CHOOSE x \in FreeSlots : \A y \in FreeSlots : x <= y
          IN  rel' = [rel EXCEPT ![s] = [pc |-> "sleep", id |-> i,
                                         deadline |-> now + ReleaseDelay,
                                         todo |-> {}, failed |-> {}]]

DownloadFile(i) ==
    /\ download_file(i)
    /\ UNCHANGED <<tasks, download_semaphore, pc, request, upload_date, out, files, now,
                   loop, reaper, nextId, escaped, calls, clip>>

\* -------------------------------------------------------------- release
\* The closure `cleanup` (lines 396-400), one thread per accepted retrieval.
\* time.sleep(15) ends, then the glob of cleanup_task_files (line 46).
ReleaseGlob(s) ==
    /\ rel[s].pc = "sleep"
    /\ now >= rel[s].deadline
    /\ rel' = [rel EXCEPT ![s].pc = "remove", ![s].todo = Glob(files, rel[s].id)]
    /\ UNCHANGED <<tasks, download_semaphore, pc, request, upload_date, out, files, now,
                   loop, reaper, resp, nextId, escaped, calls, clip>>

\* One turn of the loop of lines 47-52.
ReleaseRemove(s) ==
    /\ rel[s].pc = "remove"
    /\ \E n \in rel[s].todo, ok \in BOOLEAN :
          /\ files' = RemoveOne(files, n, ok)
          /\ rel' = [rel EXCEPT ![s].todo = @ \ {n},
                                ![s].failed = IF n \in DOMAIN files /\ ~ok
                                              THEN @ \cup {n} ELSE @]
    /\ UNCHANGED <<tasks, download_semaphore, pc, request, upload_date, out, now, loop,
                   reaper, resp, nextId, escaped, calls, clip>>

\* `if task_id in tasks:` (line 399).
ReleaseCheck(s) ==
    /\ rel[s].pc = "remove"
    /\ rel[s].todo = {}
    /\ rel' = [rel EXCEPT ![s] = IF rel[s].id \in DOMAIN tasks
                                 THEN [rel[s] EXCEPT !.pc = "del"]
                                 ELSE IdleRelease]
    /\ UNCHANGED <<tasks, download_semaphore, pc, request, upload_date, out, files, now,
                   loop, reaper, resp, nextId, escaped, calls, clip>>

\* The release without lines 399-400: the record stays.
ReleaseKeepsRecord(s) ==
    /\ rel[s].pc = "del"
    /\ rel' = [rel EXCEPT ![s] = IdleRelease]
    /\ UNCHANGED <<tasks, download_semaphore, pc, request, upload_date, out, files, now,
                   loop, reaper, resp, nextId, escaped, calls, clip>>

\* `del tasks[task_id]` (line 400): KeyError when another release deleted
\* the record after the test of line 399.
ReleaseDel(s) ==
    /\ rel[s].pc = "del"
    /\ IF rel[s].id \in DOMAIN tasks
       THEN /\ tasks' = Del(tasks, rel[s].id)
            /\ UNCHANGED escaped
       ELSE /\ escaped' = escaped \cup {[who |-> "release", id |-> rel[s].id]}
            /\ UNCHANGED tasks
    /\ rel' = [rel EXCEPT ![s] = IdleRelease]
    /\ UNCHANGED <<download_semaphore, pc, request, upload_date, out, files, now, loop,
                   reaper, resp, nextId, calls, clip>>

\* --------------------------------------------------------------- Reaper
\* auto_cleanup (lines 18-29).  asyncio.sleep(1800) starts when the sweep
\* ends, normally or by the `except` of line 27.
ReaperAsleep == [pc |-> "sleep", wake |-> now + ReaperInterval, now |-> 0, todo |-> {},
                 cur |-> Unset, listed |-> EmptyFn, removed |-> {}]

\* os.stat(f).st_mtime < now - 3600 (line 25).
Expired(mtime, t) == mtime < t - Retention

\* Lines 22-23: now = time.time(), and the glob.
ReaperStart ==
    /\ reaper.pc = "sleep"
    /\ now >= reaper.wake
    /\ loop = LoopIdle
    /\ loop' = LoopReaper
    /\ reaper' = [reaper EXCEPT !.pc = "scan", !.now = now, !.todo = DOMAIN files,
                                !.listed = files, !.removed = {}]
    /\ UNCHANGED <<tasks, download_semaphore, pc, request, upload_date, out, files, now,
                   rel, resp, nextId, escaped, calls, clip>>

\* Line 24: os.path.isfile(f) for the next name of the listing.
ReaperIsFile ==
    /\ reaper.pc = "scan"
    /\ \E n \in reaper.todo :
          reaper' = IF n \in DOMAIN files
                    THEN [reaper EXCEPT !.pc = "stat", !.cur = n, !.todo = @ \ {n}]
                    ELSE [reaper EXCEPT !.todo = @ \ {n}]
    /\ UNCHANGED <<tasks, download_semaphore, pc, request, upload_date, out, files, now,
                   loop, rel, resp, nextId, escaped, calls, clip>>

\* Line 25.  os.stat raising (the file vanished after isfile, or the call
\* failed) ends the sweep at line 27.
ReaperStat ==
    /\ reaper.pc = "stat"
    /\ \E ok \in BOOLEAN :
          IF ok /\ reaper.cur \in DOMAIN files
          THEN /\ reaper' = [reaper EXCEPT !.pc = IF Expired(files[reaper.cur], reaper.now)
                                                  THEN "remove" ELSE "scan"]
               /\ UNCHANGED loop
          ELSE /\ reaper' = ReaperAsleep
               /\ loop' = LoopIdle
    /\ UNCHANGED <<tasks, download_semaphore, pc, request, upload_date, out, files, now,
                   rel, resp, nextId, escaped, calls, clip>>

\* Line 26: os.remove(f); raising ends the sweep at line 27.
ReaperRemove ==
    /\ reaper.pc = "remove"
    /\ \E ok \in BOOLEAN :
          IF ok /\ reaper.cur \in DOMAIN files
          THEN /\ files' = Del(files, reaper.cur)
               /\ reaper' = [reaper EXCEPT !.pc = "scan", !.removed = @ \cup {reaper.cur}]
               /\ UNCHANGED loop
          ELSE /\ reaper' = ReaperAsleep
               /\ loop' = LoopIdle
               /\ UNCHANGED files
    /\ UNCHANGED <<tasks, download_semaphore, pc, request, upload_date, out, now, rel,
                   resp, nextId, escaped, calls, clip>>

\* The listing is exhausted: line 29.
ReaperEnd ==
    /\ reaper.pc = "scan"
    /\ reaper.todo = {}
    /\ reaper' = ReaperAsleep
    /\ loop' = LoopIdle
    /\ UNCHANGED <<tasks, download_semaphore, pc, request, upload_date, out, files, now,
                   rel, resp, nextId, escaped, calls, clip>>

\* --------------------------------------------------- cleanup_task_files
\* cleanup_task_files(task_id) called on its own (lines 44-52), one call
\* after the other; `calls` keeps, for each call, its id, the names still to
\* visit, the directory at the call and at its return, and what the call
\* removed or failed to remove.
Running == IF calls = <<>> THEN FALSE ELSE ~calls[Len(calls)].done

\* Line 46: the glob.
CleanupBegin(i) ==
    /\ ~Running
    /\ Len(calls) < MaxCalls
    /\ calls' = Append(calls, [id |-> i, todo |-> Glob(files, i), before |-> DOMAIN files,
                               after |-> {}, removed |-> {}, failed |-> {},
                               done |-> FALSE])
    /\ UNCHANGED <<tasks, download_semaphore, pc, request, upload_date, out, files, now,
                   loop, reaper, rel, resp, nextId, escaped, clip>>

\* One turn of the loop of lines 47-52.
CleanupRemove ==
    /\ Running
    /\ \E n \in calls[Len(calls)].todo, ok \in BOOLEAN :
          /\ files' = RemoveOne(files, n, ok)
          /\ calls' = [calls EXCEPT
                          ![Len(calls)].todo = @ \ {n},
                          ![Len(calls)].removed = IF n \in DOMAIN files /\ ok
                                                  THEN @ \cup {n} ELSE @,
                          ![Len(calls)].failed = IF n \in DOMAIN files /\ ~ok
                                                 THEN @ \cup {n} ELSE @]
    /\ UNCHANGED <<tasks, download_semaphore, pc, request, upload_date, out, now, loop,
                   reaper, rel, resp, nextId, escaped, clip>>

\* The loop is exhausted and the function returns.
CleanupEnd ==
    /\ Running
    /\ calls[Len(calls)].todo = {}
    /\ calls' = [calls EXCEPT ![Len(calls)].done = TRUE,
                              ![Len(calls)].after = DOMAIN files]
    /\ UNCHANGED <<tasks, download_semaphore, pc, request, upload_date, out, files, now,
                   loop, reaper, rel, resp, nextId, escaped, clip>>

\* Another actor (the Reaper, another release) removes a listed file
\* between the glob and the file's turn.
OtherRemoves ==
    /\ Running
    /\ \E n \in calls[Len(calls)].todo \cap DOMAIN files : files' = Del(files, n)
    /\ UNCHANGED <<tasks, download_semaphore, pc, request, upload_date, out, now, loop,
                   reaper, rel, resp, nextId, escaped, calls, clip>>

\* The download_ranges callback of line 177: parse_time(request.clip.start).
ParseClip ==
    /\ clip.seconds = <<>>
    /\ clip' = [clip EXCEPT !.seconds = <<parse_time(clip.timestr)>>]
    /\ UNCHANGED <<tasks, download_semaphore, pc, request, upload_date, out, files, now,
                   loop, reaper, rel, resp, nextId, escaped, calls>>

\* ----------------------------------------------------------------- time
\* The expiry times of the pending sleeps.
Timers ==
    {rel[s].deadline : s \in {x \in Slots : rel[x].pc = "sleep"}}
        \cup (IF reaper.pc = "sleep" THEN {reaper.wake} ELSE {})

\* The clock moves on to the next expiry of a pending sleep; a sleep that
\* has expired ends before the clock moves again.
Tick ==
    /\ loop = LoopIdle
    /\ \A s \in Slots : rel[s].pc \in {"idle", "sleep"}
    /\ \A t \in Timers : t > now
    /\ \E t \in Timers :
          /\ \A u \in Timers : t <= u
          /\ t <= MaxTime
          /\ now' = t
    /\ UNCHANGED <<tasks, download_semaphore, pc, request, upload_date, out, files, loop,
                   reaper, rel, resp, nextId, escaped, calls, clip>>

\* The steps of one worker, with the end of its Extractor call, and of one
\* release.
Worker(i) ==
    \/ Acquire(i) \/ PreClean(i) \/ SetProcessing(i)
    \/ ExtractorReturn(i) \/ ExtractorRaise(i)
    \/ \E r \in {"raise", None} \cup UploadDates : SecondaryLookup(i, r)
    \/ LookupExcept(i)
    \/ ResolveOutput(i) \/ SetMtime(i)
    \/ WriteCompleted(i) \/ WriteFilePath(i) \/ WriteFilename(i) \/ WriteDownloadName(i)
    \/ ExcStatus(i) \/ ExcError(i) \/ Exit(i)

Release(s) == ReleaseGlob(s) \/ ReleaseRemove(s) \/ ReleaseCheck(s) \/ ReleaseDel(s)

\* The steps of the Reaper.
Sweep == ReaperStart \/ ReaperIsFile \/ ReaperStat \/ ReaperRemove \/ ReaperEnd

\* Time passes while a release sleeps and no sleep expires: the clock moves
\* to an instant before the next expiry, at which a request can arrive.
Arrive ==
    /\ loop = LoopIdle
    /\ \A s \in Slots : rel[s].pc \in {"idle", "sleep"}
    /\ \E s \in Slots : rel[s].pc = "sleep"
    /\ \A t \in Timers : now + RequestGap < t
    /\ now + RequestGap <= MaxTime
    /\ now' = now + RequestGap
    /\ UNCHANGED <<tasks, download_semaphore, pc, request, upload_date, out, files, loop,
                   reaper, rel, resp, nextId, escaped, calls, clip>>

\* -------------------------------------------------------- specifications
Jobs     == 1..MaxJobs
Callers  == 1..(MaxJobs + 1)   \* ids a client may ask for, one of them unknown
Lookups  == {"raise", None} \cup UploadDates

\* The gate: GateJobs submissions, every outcome of a job (output file,
\* no output file, Extractor error).
NextGate ==
    \/ start_download(None)
    \/ \E i \in TaskIds : Acquire(i)
    \/ \E i \in TaskIds : PreClean(i)
    \/ \E i \in TaskIds : SetProcessing(i)
    \/ \E i \in TaskIds : ExtractorWrite(i, "mp4")
    \/ \E i \in TaskIds : ExtractorReturn(i)
    \/ \E i \in TaskIds : ExtractorRaise(i)
    \/ \E i \in TaskIds : SecondaryLookup(i, None)
    \/ \E i \in TaskIds : ResolveOutput(i)
    \/ \E i \in TaskIds : WriteCompleted(i)
    \/ \E i \in TaskIds : WriteFilePath(i)
    \/ \E i \in TaskIds : WriteFilename(i)
    \/ \E i \in TaskIds : WriteDownloadName(i)
    \/ \E i \in TaskIds : ExcStatus(i)
    \/ \E i \in TaskIds : ExcError(i)
    \/ \E i \in TaskIds : Exit(i)

SpecGate == Init /\ [][NextGate]_vars

\* The same, with the event loop running every worker that is ready and
\* every Extractor call returning or raising.
LiveIds == 1..LiveJobs

NextLiveGate ==
    \/ nextId <= LiveJobs /\ start_download(None)
    \/ \E i \in LiveIds : Acquire(i)
    \/ \E i \in LiveIds : PreClean(i)
    \/ \E i \in LiveIds : SetProcessing(i)
    \/ \E i \in LiveIds : ExtractorWrite(i, "mp4")
    \/ \E i \in LiveIds : ExtractorReturn(i)
    \/ \E i \in LiveIds : ExtractorRaise(i)
    \/ \E i \in LiveIds : SecondaryLookup(i, None)
    \/ \E i \in LiveIds : ResolveOutput(i)
    \/ \E i \in LiveIds : WriteCompleted(i)
    \/ \E i \in LiveIds : WriteFilePath(i)
    \/ \E i \in LiveIds : WriteFilename(i)
    \/ \E i \in LiveIds : WriteDownloadName(i)
    \/ \E i \in LiveIds : ExcStatus(i)
    \/ \E i \in LiveIds : ExcError(i)
    \/ \E i \in LiveIds : Exit(i)

LiveGate == Init /\ [][NextLiveGate]_vars /\ \A i \in LiveIds : WF_vars(Worker(i))

\* Jobs and a polling client: every input of the worker, and get_status
\* at any moment.
NextJobs ==
    \/ nextId <= MaxJobs /\ \E t \in Titles : start_download(t)
    \/ \E i \in Jobs : Acquire(i)
    \/ \E i \in Jobs : PreClean(i)
    \/ \E i \in Jobs : SetProcessing(i)
    \/ \E i \in Jobs : \E d \in HookEvents : progress_hook(i, d)
    \/ \E i \in Jobs : \E e \in Exts : ExtractorWrite(i, e)
    \/ \E i \in Jobs : ExtractorReturn(i)
    \/ \E i \in Jobs : ExtractorRaise(i)
    \/ \E i \in Jobs : \E r \in Lookups : SecondaryLookup(i, r)
    \/ \E i \in Jobs : LookupExcept(i)
    \/ \E i \in Jobs : ResolveRaise(i)
    \/ \E i \in Jobs : ResolveOutput(i)
    \/ \E i \in Jobs : SetMtime(i)
    \/ \E i \in Jobs : WriteCompleted(i)
    \/ \E i \in Jobs : WriteFilePath(i)
    \/ \E i \in Jobs : WriteFilename(i)
    \/ \E i \in Jobs : WriteDownloadName(i)
    \/ \E i \in Jobs : ExcStatus(i)
    \/ \E i \in Jobs : ExcError(i)
    \/ \E i \in Jobs : Exit(i)
    \/ \E i \in Callers : get_status(i)

SpecJobs == Init /\ [][NextJobs]_vars

\* Retrieval and release: jobs, download_file at any moment, the release
\* closures and the clock.
NextRelease ==
    \/ nextId <= MaxJobs /\ start_download(None)
    \/ \E i \in Jobs : Acquire(i)
    \/ \E i \in Jobs : PreClean(i)
    \/ \E i \in Jobs : SetProcessing(i)
    \/ \E i \in Jobs : \E e \in Exts : ExtractorWrite(i, e)
    \/ \E i \in Jobs : ExtractorReturn(i)
    \/ \E i \in Jobs : ExtractorRaise(i)
    \/ \E i \in Jobs : SecondaryLookup(i, None)
    \/ \E i \in Jobs : ResolveOutput(i)
    \/ \E i \in Jobs : WriteCompleted(i)
    \/ \E i \in Jobs : WriteFilePath(i)
    \/ \E i \in Jobs : WriteFilename(i)
    \/ \E i \in Jobs : WriteDownloadName(i)
    \/ \E i \in Jobs : ExcStatus(i)
    \/ \E i \in Jobs : ExcError(i)
    \/ \E i \in Jobs : Exit(i)
    \/ \E i \in Callers : DownloadFile(i)
    \/ \E s \in Slots : ReleaseGlob(s)
    \/ \E s \in Slots : ReleaseRemove(s)
    \/ \E s \in Slots : ReleaseCheck(s)
    \/ \E s \in Slots : ReleaseDel(s)
    \/ Tick

SpecRelease == Init /\ [][NextRelease]_vars

\* Jobs side by side, from admission to removal: workers with their
\* progress callbacks, retrievals and releases.
NextFrame ==
    \/ nextId <= MaxJobs /\ start_download(None)
    \/ \E i \in Jobs : Acquire(i)
    \/ \E i \in Jobs : PreClean(i)
    \/ \E i \in Jobs : SetProcessing(i)
    \/ \E i \in Jobs : \E d \in HookEvents : progress_hook(i, d)
    \/ \E i \in Jobs : ExtractorWrite(i, "mp4")
    \/ \E i \in Jobs : ExtractorReturn(i)
    \/ \E i \in Jobs : ExtractorRaise(i)
    \/ \E i \in Jobs : SecondaryLookup(i, None)
    \/ \E i \in Jobs : ResolveOutput(i)
    \/ \E i \in Jobs : WriteCompleted(i)
    \/ \E i \in Jobs : WriteFilePath(i)
    \/ \E i \in Jobs : WriteFilename(i)
    \/ \E i \in Jobs : WriteDownloadName(i)
    \/ \E i \in Jobs : ExcStatus(i)
    \/ \E i \in Jobs : ExcError(i)
    \/ \E i \in Jobs : Exit(i)
    \/ \E i \in Jobs : DownloadFile(i)
    \/ \E s \in Slots : ReleaseGlob(s)
    \/ \E s \in Slots : ReleaseRemove(s)
    \/ \E s \in Slots : ReleaseCheck(s)
    \/ \E s \in Slots : ReleaseDel(s)
    \/ Tick

SpecFrame == Init /\ [][NextFrame]_vars

ReaperIds == 1..ReaperJobs

\* Retrievals of one job at different instants of a release delay.
NextDelay ==
    \/ nextId <= ReaperJobs /\ start_download(None)
    \/ \E i \in ReaperIds : Acquire(i)
    \/ \E i \in ReaperIds : PreClean(i)
    \/ \E i \in ReaperIds : SetProcessing(i)
    \/ \E i \in ReaperIds : \E e \in Exts : ExtractorWrite(i, e)
    \/ \E i \in ReaperIds : ExtractorReturn(i)
    \/ \E i \in ReaperIds : ExtractorRaise(i)
    \/ \E i \in ReaperIds : SecondaryLookup(i, None)
    \/ \E i \in ReaperIds : ResolveOutput(i)
    \/ \E i \in ReaperIds : WriteCompleted(i)
    \/ \E i \in ReaperIds : WriteFilePath(i)
    \/ \E i \in ReaperIds : WriteFilename(i)
    \/ \E i \in ReaperIds : WriteDownloadName(i)
    \/ \E i \in ReaperIds : ExcStatus(i)
    \/ \E i \in ReaperIds : ExcError(i)
    \/ \E i \in ReaperIds : Exit(i)
    \/ \E i \in ReaperIds : DownloadFile(i)
    \/ \E s \in Slots : ReleaseGlob(s)
    \/ \E s \in Slots : ReleaseRemove(s)
    \/ \E s \in Slots : ReleaseCheck(s)
    \/ \E s \in Slots : ReleaseDel(s)
    \/ Tick
    \/ Arrive

SpecDelay == Init /\ [][NextDelay]_vars

\* The Reaper beside a job and its releases.  The first request arrives
\* at process start, or a release delay before the Reaper's second sweep,
\* so that a release and a sweep can fall on the same instant.
InitLate ==
    /\ tasks = EmptyFn
    /\ download_semaphore = GateSize
    /\ pc = [i \in TaskIds |-> "none"]
    /\ request = [i \in TaskIds |-> None]
    /\ upload_date = [i \in TaskIds |-> None]
    /\ out = [i \in TaskIds |-> Unset]
    /\ files = EmptyFn
    /\ now \in {0, ReaperInterval - ReleaseDelay}
    /\ loop = LoopIdle
    /\ reaper = [pc |-> "sleep", wake |-> ReaperInterval, now |-> 0, todo |-> {},
                 cur |-> Unset, listed |-> EmptyFn, removed |-> {}]
    /\ rel = [s \in Slots |-> IdleRelease]
    /\ resp = Response("none", 0, 0, Detail("none"))
    /\ nextId = 1
    /\ escaped = {}
    /\ calls = <<>>
    /\ clip = NoClip

NextReaper ==
    \/ nextId <= ReaperJobs /\ start_download(None)
    \/ \E i \in ReaperIds : Acquire(i)
    \/ \E i \in ReaperIds : PreClean(i)
    \/ \E i \in ReaperIds : SetProcessing(i)
    \/ \E i \in ReaperIds : \E e \in Exts : ExtractorWrite(i, e)
    \/ \E i \in ReaperIds : ExtractorReturn(i)
    \/ \E i \in ReaperIds : ExtractorRaise(i)
    \/ \E i \in ReaperIds : \E r \in Lookups : SecondaryLookup(i, r)
    \/ \E i \in ReaperIds : LookupExcept(i)
    \/ \E i \in ReaperIds : ResolveOutput(i)
    \/ \E i \in ReaperIds : SetMtime(i)
    \/ \E i \in ReaperIds : WriteCompleted(i)
    \/ \E i \in ReaperIds : WriteFilePath(i)
    \/ \E i \in ReaperIds : WriteFilename(i)
    \/ \E i \in ReaperIds : WriteDownloadName(i)
    \/ \E i \in ReaperIds : ExcStatus(i)
    \/ \E i \in ReaperIds : ExcError(i)
    \/ \E i \in ReaperIds : Exit(i)
    \/ \E i \in ReaperIds : DownloadFile(i)
    \/ \E s \in Slots : ReleaseGlob(s)
    \/ \E s \in Slots : ReleaseRemove(s)
    \/ \E s \in Slots : ReleaseCheck(s)
    \/ \E s \in Slots : ReleaseDel(s)
    \/ ReaperStart
    \/ ReaperIsFile
    \/ ReaperStat
    \/ ReaperRemove
    \/ ReaperEnd
    \/ Tick

SpecReaper == InitLate /\ [][NextReaper]_vars

\* The same, with the scheduling the runtime gives: the event loop runs
\* every coroutine that is ready (workers, Reaper), every Extractor call
\* returns or raises, the thread pool runs every release to its end, and
\* time passes.
LiveReaper ==
    /\ SpecReaper
    /\ \A i \in ReaperIds : WF_vars(Worker(i))
    /\ \A s \in Slots : WF_vars(Release(s))
    /\ WF_vars(Sweep)
    /\ WF_vars(Tick)

\* cleanup_task_files on every content of the storage area: files of the
\* ids of Jobs, any subset present, and calls for any of the ids.
CleanupNames == {Name(i, e) : i \in Jobs, e \in Exts}

InitCleanup ==
    /\ tasks = EmptyFn
    /\ download_semaphore = GateSize
    /\ pc = [i \in TaskIds |-> "none"]
    /\ request = [i \in TaskIds |-> None]
    /\ upload_date = [i \in TaskIds |-> None]
    /\ out = [i \in TaskIds |-> Unset]
    /\ \E S \in SUBSET CleanupNames : files = [n \in S |-> 0]
    /\ now = 0
    /\ loop = LoopIdle
    /\ reaper = [pc |-> "sleep", wake |-> ReaperInterval, now |-> 0, todo |-> {},
                 cur |-> Unset, listed |-> EmptyFn, removed |-> {}]
    /\ rel = [s \in Slots |-> IdleRelease]
    /\ resp = Response("none", 0, 0, Detail("none"))
    /\ nextId = 1
    /\ escaped = {}
    /\ calls = <<>>
    /\ clip = NoClip

NextCleanup ==
    \/ \E i \in Jobs : CleanupBegin(i)
    \/ CleanupRemove
    \/ OtherRemoves
    \/ CleanupEnd

SpecCleanup == InitCleanup /\ [][NextCleanup]_vars

\* parse_time on time strings written from numbers, and on every short
\* string of the characters TimeChars.
TimeNums  == {0, 1, 30, 75, 100}
TimeChars == {"0", "1", "3", ":", "x"}

\* str(n), and n written with two digits at least.
RECURSIVE Decimal(_)
Decimal(n) == IF n < 10 THEN <<Digits[n + 1]>> ELSE Decimal(n \div 10) \o <<Digits[(n % 10) + 1]>>

Padded(n) == IF n < 10 THEN <<"0">> \o Decimal(n) ELSE Decimal(n)

\* The numbers of ns written with colons between them.
RECURSIVE Written(_, _)
Written(ns, pad) ==
    LET w(n) == IF pad THEN Padded(n) ELSE Decimal(n)
    IN  IF Len(ns) = 1 THEN w(ns[1])
        ELSE w(ns[1]) \o <<":">> \o Written(Tail(ns), pad)

NumTuples == UNION {[1..k -> TimeNums] : k \in 1..MaxParts}

AnyStrings == UNION {[1..k -> TimeChars] : k \in 0..MaxStrLen}

InitParse ==
    /\ tasks = EmptyFn
    /\ download_semaphore = GateSize
    /\ pc = [i \in TaskIds |-> "none"]
    /\ request = [i \in TaskIds |-> None]
    /\ upload_date = [i \in TaskIds |-> None]
    /\ out = [i \in TaskIds |-> Unset]
    /\ files = EmptyFn
    /\ now = 0
    /\ loop = LoopIdle
    /\ reaper = [pc |-> "sleep", wake |-> ReaperInterval, now |-> 0, todo |-> {},
                 cur |-> Unset, listed |-> EmptyFn, removed |-> {}]
    /\ rel = [s \in Slots |-> IdleRelease]
    /\ resp = Response("none", 0, 0, Detail("none"))
    /\ nextId = 1
    /\ escaped = {}
    /\ calls = <<>>
    /\ \/ \E ns \in NumTuples, pad \in BOOLEAN :
             clip = [timestr |-> Written(ns, pad), parts |-> ns, seconds |-> <<>>]
       \/ \E s \in AnyStrings :
             clip = [timestr |-> s, parts |-> <<>>, seconds |-> <<>>]

NextParse == ParseClip

SpecParse == InitParse /\ [][NextParse]_vars

\* ------------------------------------------------------------------ claims
StatusIs(i, st) == IF i \in DOMAIN tasks THEN tasks[i]["status"] = st ELSE FALSE

Processing == {i \in DOMAIN tasks : tasks[i]["status"] = "processing"}

\* C1: at most GateSize jobs have status `processing` in every reachable
\* state, whatever the outcome of the jobs that ran (output file, Extractor
\* error, Extractor success without an output file); jobs beyond the first
\* GateSize stay `queued` until a `processing` job has left that status.
C1_AtMostGateSizeProcessing == Cardinality(Processing) <= GateSize

\* C2: when the Extractor returned without raising and no qualifying file
\* exists for the job, the job ends with status `error` and an error
\* message.
C2_OutputMissingIsError ==
    \A i \in TaskIds :
        (pc[i] = "done" /\ out[i] = NoFile /\ i \in DOMAIN tasks)
            => (tasks[i]["status"] = "error" /\ "error" \in DOMAIN tasks[i])

\* Two consecutive answers of get_status for the same job.
SamePoller ==
    /\ resp.op = "status" /\ resp.code = 200
    /\ resp'.op = "status" /\ resp'.code = 200
    /\ resp'.id = resp.id

\* C3: the progress values a poller of get_status sees for a job never
\* decrease, and a job seen `completed` shows progress 100, for every
\* sequence of callbacks the Extractor delivers to progress_hook.
C3_ProgressMonotoneTo100 ==
    [][/\ SamePoller => resp'.body["progress"] >= resp.body["progress"]
       /\ (resp'.op = "status" /\ resp'.code = 200)
             => (resp'.body["status"] = "completed" => resp'.body["progress"] = 100)]_vars

ResultFields == {"file_path", "filename", "download_name"}

\* C4: in every state of the job table a record has its result fields iff
\* its status is `completed`, and its error field iff its status is `error`.
C4_FieldsMatchStatus ==
    \A i \in DOMAIN tasks :
        /\ (ResultFields \subseteq DOMAIN tasks[i]) <=> (tasks[i]["status"] = "completed")
        /\ (ResultFields \cap DOMAIN tasks[i] # {}) => (tasks[i]["status"] = "completed")
        /\ ("error" \in DOMAIN tasks[i]) <=> (tasks[i]["status"] = "error")

\* C5: every admitted job reaches a terminal status: a worker that has
\* ended leaves its job `completed` or `error`.
C5_EndedWorkerIsTerminal ==
    \A i \in TaskIds :
        (pc[i] = "done" /\ i \in DOMAIN tasks)
            => tasks[i]["status"] \in {"completed", "error"}

StatusSteps ==
    {<<"queued", "processing">>, <<"processing", "completed">>, <<"processing", "error">>}

\* C6: a record is created as `queued` with progress 0, for an id never
\* used before; its status moves only queued -> processing -> completed or
\* error; a terminal status never changes, the record can only be removed.
C6_StatusPath ==
    [][\A i \in TaskIds :
          /\ (i \notin DOMAIN tasks /\ i \in DOMAIN tasks')
                => (i = nextId /\ tasks'[i] = [status |-> "queued", progress |-> 0])
          /\ (i \in DOMAIN tasks /\ i \in DOMAIN tasks')
                => \/ tasks'[i]["status"] = tasks[i]["status"]
                   \/ <<tasks[i]["status"], tasks'[i]["status"]>> \in StatusSteps]_vars

\* A job completed and was removed by its release, another ended in error.
C6_Witness ==
    \E i, j \in Jobs : pc[i] = "done" /\ i \notin DOMAIN tasks /\ StatusIs(j, "error")

\* The ids download_file rejects: unknown, `queued`, `processing`, `error`.
Unfinished(i) ==
    IF i \in DOMAIN tasks THEN tasks[i]["status"] \in {"queued", "processing", "error"}
    ELSE TRUE

\* C8: download_file for an unknown, queued, processing or error job answers
\* 400 "File not ready", schedules no release and changes neither the job
\* table nor the storage area; a release is scheduled only for a job
\* whose status is `completed`.
C8_NotReadyRejected ==
    [][/\ \A i \in Callers :
             (DownloadFile(i) /\ Unfinished(i))
                => /\ resp' = Response("download", i, 400, Detail("File not ready"))
                   /\ rel' = rel /\ tasks' = tasks /\ files' = files
       /\ \A s \in Slots :
             (rel[s].pc = "idle" /\ rel'[s].pc = "sleep")
                => StatusIs(rel'[s].id, "completed")]_vars

\* A retrieval of a job that ended in error was rejected, and a release is
\* pending for a completed job.
C8_Witness ==
    /\ resp.op = "download" /\ resp.code = 400 /\ StatusIs(resp.id, "error")
    /\ \E s \in Slots : rel[s].pc = "sleep"

\* A release of job i is pending or running.
Releasing(i) == \E s \in Slots : rel[s].pc # "idle" /\ rel[s].id = i

\* The step that ends a release.
ReleaseEnds(s) == rel[s].pc \in {"remove", "del"} /\ rel'[s].pc = "idle"

\* C7 as stated: when a release has run, no file whose name starts with the
\* job id remains, the record is gone and get_status answers 404.
C7_NoFileRemains ==
    [][\A s \in Slots :
          ReleaseEnds(s) => /\ Glob(files', rel[s].id) = {}
                            /\ rel[s].id \notin DOMAIN tasks']_vars

\* C7 amended: after an accepted retrieval every release of the job runs
\* to its end and get_status answers 404; when a release ends the record
\* is gone, and the files left with the job's prefix are those whose
\* os.remove raised in that release.
C7_ReleaseRuns ==
    /\ \A i \in ReaperIds : Releasing(i) ~> (~Releasing(i) /\ StatusOf(i).code = 404)
    /\ [][\A s \in Slots :
             ReleaseEnds(s) => /\ Glob(files', rel[s].id) \subseteq rel[s].failed
                               /\ rel[s].id \notin DOMAIN tasks']_vars

\* A release has run: the record is gone, get_status answers 404, and a
\* file whose deletion failed is still there.
C7_Witness ==
    \E i \in ReaperIds :
        /\ pc[i] = "done" /\ ~Releasing(i)
        /\ StatusOf(i).code = 404
        /\ Glob(files, i) # {}

\* The step that ends a sweep, by line 29 after the loop or after the
\* `except` of line 27.
SweepEnds == reaper.pc # "sleep" /\ reaper'.pc = "sleep"

\* The file whose os.stat or os.remove the sweep is executing.
SweepAt(n) == reaper.pc \in {"stat", "remove"} /\ reaper.cur = n

\* C9: when a sweep ends, each file of its listing older than the retention
\* window at the sweep's `now` is gone, a file whose own stat or removal
\* raised excepted, and the sweep removed no file inside the window.
C9_SweepRemovesOld ==
    [][SweepEnds =>
          \A n \in DOMAIN reaper.listed :
              IF Expired(reaper.listed[n], reaper.now)
              THEN n \notin DOMAIN files' \/ SweepAt(n)
              ELSE n \notin reaper.removed]_vars

\* What holds of every finished call: it removed only names starting with
\* its id, names of other ids are still there at its return, and every
\* listed name had
\* its turn (it is gone, or its os.remove raised and was printed).
CallIsTotal(c) ==
    /\ \A n \in c.removed : StartsWith(n, c.id)
    /\ \A n \in c.before : ~StartsWith(n, c.id) => n \in c.after
    /\ \A n \in c.before : StartsWith(n, c.id) => (n \notin c.after \/ n \in c.failed)

\* C10 as stated: a second call right after a first one for the same id
\* changes nothing, no call raises, and no call removes a file of another id.
C10_SecondCallNoOp ==
    /\ escaped = {}
    /\ \A k \in 1..Len(calls) :
          calls[k].done =>
              /\ CallIsTotal(calls[k])
              /\ (k > 1 /\ calls[k - 1].id = calls[k].id) => calls[k].removed = {}

\* C10 amended: the second call changes nothing when no os.remove raised
\* in the first.
C10_CleanupIdempotent ==
    /\ escaped = {}
    /\ \A k \in 1..Len(calls) :
          calls[k].done =>
              /\ CallIsTotal(calls[k])
              /\ (k > 1 /\ calls[k - 1].id = calls[k].id /\ calls[k - 1].failed = {})
                    => calls[k].removed = {}

\* Two finished calls for one id: the first removed a file, none of its
\* removals failed, the second removed nothing, and a file of another id
\* is still there.
C10_Witness ==
    /\ Len(calls) = 2
    /\ calls[2].done /\ calls[1].id = calls[2].id
    /\ calls[1].removed # {} /\ calls[1].failed = {} /\ calls[2].removed = {}
    /\ \E n \in DOMAIN files : ~StartsWith(n, calls[1].id)

\* The seconds a list of one to three numbers stands for.
SecondsOf(ns) ==
    CASE Len(ns) = 1 -> ns[1]
      [] Len(ns) = 2 -> 60 * ns[1] + ns[2]
      [] Len(ns) = 3 -> 3600 * ns[1] + 60 * ns[2] + ns[3]

Colons(s) == {k \in 1..Len(s) : s[k] = ":"}

\* A malformed time string: empty, a character that is neither digit nor
\* colon, an empty part, or more than three parts.
Malformed(s) ==
    \/ s = <<>>
    \/ \E k \in 1..Len(s) : s[k] # ":" /\ ~IsDigit(s[k])
    \/ 1 \in Colons(s) \/ Len(s) \in Colons(s)
    \/ \E k \in Colons(s) : k + 1 \in Colons(s)
    \/ Cardinality(Colons(s)) > 2

\* C11: parse_time gives S, 60*M+S or 3600*H+60*M+S for the strings "S",
\* "M:S", "H:M:S" written from numbers, and 0.0 for every malformed string.
C11_ParseTimeExact ==
    clip.seconds # <<>> =>
        /\ (Len(clip.parts) \in 1..3) => clip.seconds[1] = SecondsOf(clip.parts)
        /\ Malformed(clip.timestr) => clip.seconds[1] = 0

\* "1:30" gave 90.
C11_Witness == clip.timestr = <<"1", ":", "3", "0">> /\ clip.seconds = <<90>>

\* The handler of line 228 has written both of its fields.
HandlerDone(i) ==
    (pc[i] = "exc_error" /\ pc'[i] = "exit" /\ i \in DOMAIN tasks')
        => (tasks'[i]["status"] = "error" /\ "error" \in DOMAIN tasks'[i])

NoWorkerEscaped == \A e \in escaped : e.who # "worker"

InGate == {i \in TaskIds : pc[i] \notin {"none", "acquire", "done"}}

\* C13: the slots held are those of the workers inside the gated section,
\* at most GateSize; with no worker inside all slots are free; a worker
\* waiting at the gate is eventually admitted.
C13_SlotsMatchWorkers ==
    /\ [](/\ GateSize - download_semaphore = Cardinality(InGate)
          /\ Cardinality(InGate) <= GateSize)
    /\ \A i \in LiveIds : (pc[i] = "acquire") ~> (pc[i] # "acquire")

\* All jobs have run, one to `completed`, one to `error`, one without an
\* output file, and every slot is free again.
C13_Witness ==
    /\ \A i \in LiveIds : pc[i] = "done"
    /\ download_semaphore = GateSize
    /\ \E i, j, k \in LiveIds :
          StatusIs(i, "completed") /\ StatusIs(j, "error") /\ out[k] = NoFile

\* The files of the sweep's listing it has not visited, still there and
\* older than the retention window.
OldUnvisited ==
    {m \in reaper.todo : m \in DOMAIN files' /\ Expired(reaper.listed[m], reaper.now)}

\* C14: a sweep that ends at a file whose stat or removal failed (the call
\* raised, or the file was deleted after the listing) leaves no other old
\* file of its listing behind: the failure is skipped, the sweep goes on.
C14_FailureSkipped ==
    [][(reaper.pc \in {"stat", "remove"} /\ reaper'.pc = "sleep") => OldUnvisited = {}]_vars

\* C15: while a job is `completed` with its result path written, no
\* retrieval of it was accepted, and less than the retention window has
\* passed since any file was produced, the file at the result path exists.
C15_CompletedFileExists ==
    \A i \in DOMAIN tasks :
        (/\ tasks[i]["status"] = "completed"
         /\ "file_path" \in DOMAIN tasks[i]
         /\ ~Releasing(i)
         /\ now < Retention)
            => tasks[i]["file_path"] \in DOMAIN files

\* C16: no release raises, whatever was removed before it ran and however
\* it interleaves with another release of the same job or with the Reaper.
C16_ReleaseNeverRaises == \A e \in escaped : e.who # "release"

\* The worker of job i ended after it found an output file.
EndedWithOutput(i) == pc[i] = "done" /\ out[i] \in DOMAIN files /\ i \in DOMAIN tasks

\* The lookup gave no date (it raised, or the info has none), or it gave
\* one and os.utime failed: the file keeps the time the file system set.
NoDate(i)      == upload_date[i] = None
UtimeFailed(i) == upload_date[i] # None /\ files[out[i]] # MkTime(upload_date[i])

Completed(i) == tasks[i]["status"] = "completed" /\ "download_name" \in DOMAIN tasks[i]

TitleOrVideo(i) == IF request[i] # None THEN request[i] ELSE "video"

\* C17 as stated: after a failed lookup or a failed os.utime a job with an
\* output file ends `completed`, its display name is the title or `video`
\* without a date, and the file keeps the time the file system set.
C17_NoDateAfterFailure ==
    \A i \in Jobs :
        (EndedWithOutput(i) /\ (NoDate(i) \/ UtimeFailed(i)))
            => /\ Completed(i)
               /\ tasks[i]["download_name"].title = TitleOrVideo(i)
               /\ tasks[i]["download_name"].date = None
               /\ files[out[i]] \in 0..now

\* C17 amended: the display name carries no date when the lookup gave
\* none, and the date of the lookup when only os.utime failed.
C17_SecondaryFailureNotFatal ==
    \A i \in Jobs :
        (EndedWithOutput(i) /\ (NoDate(i) \/ UtimeFailed(i)))
            => /\ Completed(i)
               /\ tasks[i]["download_name"].title = TitleOrVideo(i)
               /\ tasks[i]["download_name"].date = upload_date[i]
               /\ tasks[i]["download_name"].ext = out[i].ext
               /\ files[out[i]] \in 0..now

\* A job completed with the date in its display name after its os.utime
\* failed.
C17_Witness ==
    \E j \in Jobs : EndedWithOutput(j) /\ UtimeFailed(j) /\ Completed(j)

\* A step of the execution of job i: its worker, its Extractor call, its
\* progress callbacks.
JobStep(i) ==
    \/ Worker(i)
    \/ \E e \in Exts : ExtractorWrite(i, e)
    \/ \E d \in HookEvents : progress_hook(i, d)

\* C18: a step of job i changes no record of another job and deletes no
\* file of another job; a record changes only in a step of its own job and
\* disappears only in the `del` of a release for its id.
C18_OtherJobsUntouched ==
    [][/\ \A i \in Jobs :
             JobStep(i) =>
                 /\ \A j \in DOMAIN tasks \ {i} : j \in DOMAIN tasks' /\ tasks'[j] = tasks[j]
                 /\ \A n \in DOMAIN files : n.id # i => n \in DOMAIN files'
       /\ \A j \in DOMAIN tasks :
             IF j \in DOMAIN tasks'
             THEN tasks'[j] # tasks[j] => JobStep(j)
             ELSE \E s \in Slots : rel[s].id = j /\ ReleaseDel(s)]_vars

\* One job ended `error` while the other goes on with its own progress.
C18_Witness ==
    \E i, j \in Jobs :
        /\ pc[i] = "done" /\ StatusIs(i, "error")
        /\ pc[j] = "extract" /\ StatusIs(j, "processing") /\ tasks[j]["progress"] = 50

\* The delay of the retrieval that took slot s has not elapsed.
Waiting(s) == rel[s].pc = "sleep" /\ now < rel[s].deadline

\* C19: while the release delay of an accepted retrieval has not elapsed,
\* no release deletes the output file of its job.
C19_FileKeptForDelay ==
    [][\A s \in Slots :
          (Waiting(s) /\ out[rel[s].id] \in DOMAIN files)
              => out[rel[s].id] \in DOMAIN files']_vars

====
